---- MODULE Spec2Model ----
(***************************************************************************)
(* A model of the HttpClient wrapper of coderluojz/utils.                  *)
(*                                                                         *)
(*   - the request pipeline (constructor, the four interceptor hooks and   *)
(*     request()) in its two variants, src/src/request.ts ("src") and      *)
(*     src/utils/request.ts ("utils");                                     *)
(*   - HttpClient.stream() of src/utils/request.ts.                        *)
(*                                                                         *)
(* JavaScript values are tagged tuples.  A string is a sequence of         *)
(* one-character TLA+ strings (or of longer pieces where the code never    *)
(* looks inside them), so that concatenation is \o.  An absent property    *)
(* reads as undefined, as it does in JavaScript.  The message texts of     *)
(* the source are Chinese; the model writes them in English.               *)
(***************************************************************************)
EXTENDS Integers, Sequences, FiniteSets, TLC

VARIABLES
    variant,            \* which of the two source files the client is built from
    handlers,           \* this.handlers: which of the three handlers are registered
    customInterceptors, \* the hooks supplied through customInterceptors
    axiosConfig,        \* the instance defaults given to axios.create
    pc,                 \* position of the request in the interceptor chain
    config,             \* the request config as the chain carries it
    response,           \* the AxiosResponse handed to the response interceptor
    error,              \* the error handed to the response-rejected interceptor
    calls,              \* the handler invocations of the current request, in order
    settled,            \* the promise returned by request()
    options,            \* stream(): whether a signal and extractContent are given
    callbacks,          \* stream(): each callback is absent, returns or throws
    sPc,                \* stream(): position of the call
    body,               \* stream(): the bytes of the response body
    offset,             \* stream(): how many of them the reader has delivered
    held,               \* stream(): the bytes the decoder holds over
    chunk,              \* stream(): the text of the last read
    fullText,           \* stream(): the accumulated text
    events,             \* stream(): the callback invocations, in order
    result,             \* stream(): the promise returned by stream()
    caught,             \* stream(): the error the catch block received
    reads,              \* stream(): the reads that delivered bytes
    signalAborted,      \* stream(): the caller's signal is aborted
    controllerAborted,  \* stream(): the call's own controller is aborted
    streams             \* concurrent stream() calls: the locals of each call

requestVars == <<variant, handlers, customInterceptors, axiosConfig, pc, config,
                 response, error, calls, settled>>

streamVars == <<options, callbacks, sPc, body, offset, held, chunk, fullText, events,
                result, caught, reads, signalAborted, controllerAborted>>

vars == <<requestVars, streamVars, streams>>

-----------------------------------------------------------------------------
(* JavaScript values *)

Undefined == <<"undefined">>
Null == <<"null">>
Bool(b) == <<"boolean", b>>
Num(n) == <<"number", n>>
Str(s) == <<"string", s>>

IsStr(x) == x[1] = "string"
IsNum(x) == x[1] = "number"

\* ToBoolean: undefined, null, false, 0 and "" are falsy, all else is truthy.
Truthy(x) ==
    CASE x[1] = "undefined" -> FALSE
      [] x[1] = "null" -> FALSE
      [] x[1] = "boolean" -> x[2]
      [] x[1] = "number" -> x[2] # 0
      [] x[1] = "string" -> x[2] # <<>>
      [] OTHER -> TRUE

Digit(d) == <<"0", "1", "2", "3", "4", "5", "6", "7", "8", "9">>[d + 1]

RECURSIVE NatToString(_)
NatToString(n) ==
    IF n < 10 THEN <<Digit(n)>>
    ELSE NatToString(n \div 10) \o <<Digit(n % 10)>>

-----------------------------------------------------------------------------
(* Request pipeline: configuration *)

Hooks == {"requestOnFulfilled", "requestOnRejected",
          "responseOnFulfilled", "responseOnRejected"}

ConfigKeys == {"url", "showGlobalMessage", "successCode", "enableCodeCheck",
               "Authorization"}

EmptyConfig == [k \in ConfigKeys |-> Undefined]

\* The library default of successCode.
DefaultSuccessCode == 10000

\* HttpClient.defaultConfig; the src variant has no enableCodeCheck.
defaultConfig(v) ==
    [EmptyConfig EXCEPT
        !["showGlobalMessage"] = Bool(TRUE),
        !["successCode"] = Num(DefaultSuccessCode),
        !["enableCodeCheck"] = IF v = "utils" THEN Bool(TRUE) ELSE Undefined]

\* { ...a, ...b }.  axios drops the properties whose value is undefined when it
\* merges the instance defaults with the call's config, so a config reaching an
\* interceptor has no own property that is undefined.
Spread(a, b) == [k \in ConfigKeys |-> IF b[k] # Undefined THEN b[k] ELSE a[k]]

\* handlers.handleRequestHeader as in the usage example: it sets the token.
handleRequestHeader(c) ==
    [c EXCEPT !["Authorization"] = Str(<<"Bearer token">>)]

\* requestOnFulfilled: the merged config and the handler calls it makes.
requestOnFulfilledConfig(v, h, c) ==
    LET merged == Spread(defaultConfig(v), c)
    IN  IF h.handleRequestHeader THEN handleRequestHeader(merged) ELSE merged

-----------------------------------------------------------------------------
(* Request pipeline: the response interceptor *)

\* isSuccess with the comparison inverted.
isSuccess_inverted(v, c, res) ==
    IF v = "utils"
    THEN IF Truthy(c["enableCodeCheck"])
         THEN c["successCode"] # res.code
         ELSE TRUE
    ELSE c["successCode"] # res.code

\* isSuccess without the enableCodeCheck switch.
isSuccess_alwaysChecked(v, c, res) == c["successCode"] = res.code

\* const isSuccess = ...
isSuccess(v, c, res) ==
    IF v = "utils"
    THEN IF Truthy(c["enableCodeCheck"])
         THEN c["successCode"] = res.code
         ELSE TRUE
    ELSE c["successCode"] = res.code

\* `${res.code}`
CodeText(code) == IF IsNum(code) THEN NatToString(code[2]) ELSE <<"undefined">>

\* businessErrorMessage with ?? in the place of ||.
businessErrorMessage_nullish(res) ==
    IF res.message \notin {Null, Undefined}
    THEN res.message
    ELSE Str(<<"request failed, business code: ">> \o CodeText(res.code))

\* const errorMessage = res.message || `...${res.code}`
businessErrorMessage(res) ==
    IF Truthy(res.message)
    THEN res.message
    ELSE Str(<<"request failed, business code: ">> \o CodeText(res.code))

\* businessFailureCalls with the else of `else if` lost: both handlers may run.
businessFailureCalls_noElse(h, c, res) ==
    (IF h.handleBackendError
     THEN << <<"handleBackendError", res.code, res.message>> >>
     ELSE <<>>)
    \o
    (IF Truthy(c["showGlobalMessage"]) /\ h.handleGlobalMessage
     THEN << <<"handleGlobalMessage", businessErrorMessage(res)>> >>
     ELSE <<>>)

\* businessFailureCalls handing errorMessage, not res.message, to the handler.
businessFailureCalls_wrongArg(h, c, res) ==
    IF h.handleBackendError
    THEN << <<"handleBackendError", res.code, businessErrorMessage(res)>> >>
    ELSE IF Truthy(c["showGlobalMessage"])
         THEN IF h.handleGlobalMessage
              THEN << <<"handleGlobalMessage", businessErrorMessage(res)>> >>
              ELSE <<>>
         ELSE <<>>

\* The handler invocations of the business-failure branch.
businessFailureCalls(h, c, res) ==
    IF h.handleBackendError
    THEN << <<"handleBackendError", res.code, res.message>> >>
    ELSE IF Truthy(c["showGlobalMessage"])
         THEN IF h.handleGlobalMessage
              THEN << <<"handleGlobalMessage", businessErrorMessage(res)>> >>
              ELSE <<>>
         ELSE <<>>

\* successValue with the data unwrapped in both variants.
successValue_unwrapBoth(v, res) == <<"data", res.data>>

\* What a success resolves with: src unwraps data, utils returns the envelope.
successValue(v, res) == IF v = "utils" THEN <<"envelope", res>> ELSE <<"data", res.data>>

-----------------------------------------------------------------------------
(* Request pipeline: the response-rejected interceptor *)

MsgUnknown == <<"unknown error">>
MsgCancelled == <<"request cancelled">>
MsgUnauthorized == <<"unauthorized, please re-login">>
MsgForbidden == <<"access denied">>
MsgNotFound == <<"resource not found: ">>
MsgServer == <<"internal server error">>
MsgHttp == <<"HTTP error: ">>
MsgNetwork == <<"network error, unable to reach server">>

\* `${error.response.config?.url}`
UrlText(u) == IF IsStr(u) THEN u[2] ELSE <<"undefined">>

\* switch (status)
statusMessage(resp) ==
    CASE resp.status = 401 -> MsgUnauthorized
      [] resp.status = 403 -> MsgForbidden
      [] resp.status = 404 -> MsgNotFound \o UrlText(resp.config["url"])
      [] resp.status = 500 -> MsgServer
      [] OTHER -> MsgHttp \o NatToString(resp.status)

\* An optional object property: undefined, or the object.
Some(x) == <<"object", x>>
The(x) == x[2]

\* errorMessage with the response looked at before the cancellation.
errorMessage_responseFirst(e) ==
    IF Truthy(e.response) THEN statusMessage(The(e.response))
    ELSE IF e.isCancel THEN MsgCancelled
    ELSE IF e.request THEN MsgNetwork
    ELSE MsgUnknown

\* let errorMessage = ... ; the if / else if chain
errorMessage(e) ==
    IF e.isCancel THEN MsgCancelled
    ELSE IF Truthy(e.response) THEN statusMessage(The(e.response))
    ELSE IF e.request THEN MsgNetwork
    ELSE MsgUnknown

\* rejectedCalls ignoring showGlobalMessage.
rejectedCalls_always(h, e) ==
    IF h.handleGlobalMessage
    THEN << <<"handleGlobalMessage", Str(errorMessage(e))>> >>
    ELSE <<>>

\* The handler invocations of responseOnRejected; error.config may be absent.
rejectedCalls(h, e) ==
    IF Truthy(e.config) /\ Truthy(The(e.config)["showGlobalMessage"])
    THEN IF h.handleGlobalMessage
         THEN << <<"handleGlobalMessage", Str(errorMessage(e))>> >>
         ELSE <<>>
    ELSE <<>>

\* { ...error, message: errorMessage }: the error's own properties (the mark
\* axios.isCancel reads is on the prototype and is not copied) and the message.
augmented(e) ==
    [response |-> e.response, request |-> e.request, config |-> e.config,
     message |-> Str(errorMessage(e))]

-----------------------------------------------------------------------------
(* stream(): strings *)

LF == "\n"
Whitespace == {" ", "\t", "\r", LF}

\* The bytes of a two-byte UTF-8 character and the character they decode to.
LeadByte == "c3"
ContinuationByte == "a9"
TwoByteChar == "e-acute"
ReplacementChar == "U+FFFD"

\* decoder.decode(value, { stream: true }): the text of the bytes held over from
\* the last call followed by the new ones; an incomplete character at the end
\* is held over, a malformed one decodes to the replacement character.
RECURSIVE DecodeText(_)
DecodeText(bytes) ==
    IF bytes = <<>> THEN <<>>
    ELSE IF Head(bytes) = LeadByte
    THEN IF Len(bytes) = 1 THEN <<>>
         ELSE IF bytes[2] = ContinuationByte
         THEN <<TwoByteChar>> \o DecodeText(SubSeq(bytes, 3, Len(bytes)))
         ELSE <<ReplacementChar>> \o DecodeText(Tail(bytes))
    ELSE IF Head(bytes) = ContinuationByte
    THEN <<ReplacementChar>> \o DecodeText(Tail(bytes))
    ELSE <<Head(bytes)>> \o DecodeText(Tail(bytes))

DecodeHeld(bytes) ==
    IF bytes # <<>> /\ bytes[Len(bytes)] = LeadByte THEN <<LeadByte>> ELSE <<>>

\* chunk.split('\n')
RECURSIVE Split(_)
Split(s) ==
    IF \E i \in 1..Len(s) : s[i] = LF
    THEN LET i == CHOOSE i \in 1..Len(s) :
                      s[i] = LF /\ \A j \in 1..(i - 1) : s[j] # LF
         IN  <<SubSeq(s, 1, i - 1)>> \o Split(SubSeq(s, i + 1, Len(s)))
    ELSE <<s>>

\* line.trim()
RECURSIVE TrimStart(_)
TrimStart(s) ==
    IF s # <<>> /\ Head(s) \in Whitespace THEN TrimStart(Tail(s)) ELSE s

RECURSIVE TrimEnd(_)
TrimEnd(s) ==
    IF s # <<>> /\ s[Len(s)] \in Whitespace
    THEN TrimEnd(SubSeq(s, 1, Len(s) - 1))
    ELSE s

Trim(s) == TrimEnd(TrimStart(s))

DataPrefix == <<"d", "a", "t", "a", ":", " ">>
DoneMark == <<"[", "D", "O", "N", "E", "]">>

\* line.startsWith('data: ')
StartsWithData(line) ==
    Len(line) >= Len(DataPrefix) /\ SubSeq(line, 1, Len(DataPrefix)) = DataPrefix

\* line.slice(6).trim()
DataOf(line) == Trim(SubSeq(line, Len(DataPrefix) + 1, Len(line)))

\* IsDone that never recognises the mark.
IsDone_never(data) == FALSE

\* data === '[DONE]'
IsDone(data) == data = DoneMark

-----------------------------------------------------------------------------
(* stream(): JSON.parse, extractContent and string conversion *)

Digits == {"0", "1", "2", "3", "4", "5", "6", "7", "8", "9"}
DigitValue(c) == CHOOSE d \in 0..9 : Digit(d) = c

RECURSIVE NatOfDigits(_)
NatOfDigits(s) ==
    IF Len(s) = 1 THEN DigitValue(s[1])
    ELSE 10 * NatOfDigits(SubSeq(s, 1, Len(s) - 1)) + DigitValue(s[Len(s)])

IsNumberText(s) ==
    /\ s # <<>>
    /\ \A i \in 1..Len(s) : s[i] \in Digits
    /\ Len(s) > 1 => s[1] # "0"

IsStringText(s) ==
    /\ Len(s) >= 2
    /\ s[1] = "\"" /\ s[Len(s)] = "\""
    /\ \A i \in 2..(Len(s) - 1) : s[i] \notin {"\"", "\\"}

ObjectOpen == <<"{", "\"", "v", "\"", ":">>

IsObjectText(s) ==
    /\ Len(s) > Len(ObjectOpen) + 1
    /\ SubSeq(s, 1, Len(ObjectOpen)) = ObjectOpen
    /\ s[Len(s)] = "}"

ParseFailure == [ok |-> FALSE, value |-> Undefined]

\* JSON.parse(data) on the JSON texts the model's bodies hold: a natural number,
\* a string without escapes, null, and an object {"v":<one of these>}; any
\* other text of the model's bodies is no JSON text and makes JSON.parse throw.
ParseScalar(s) ==
    IF IsNumberText(s) THEN [ok |-> TRUE, value |-> Num(NatOfDigits(s))]
    ELSE IF IsStringText(s)
    THEN [ok |-> TRUE, value |-> Str(SubSeq(s, 2, Len(s) - 1))]
    ELSE IF s = <<"n", "u", "l", "l">> THEN [ok |-> TRUE, value |-> Null]
    ELSE ParseFailure

JSONParse(s) ==
    IF IsObjectText(s)
    THEN LET inner == ParseScalar(SubSeq(s, Len(ObjectOpen) + 1, Len(s) - 1))
         IN  IF inner.ok
             THEN [ok |-> TRUE, value |-> <<"object", inner.value>>]
             ELSE ParseFailure
    ELSE ParseScalar(s)

\* String(x), and x in `fullText += x`
StringOf(x) ==
    CASE x[1] = "string" -> x[2]
      [] x[1] = "number" -> NatToString(x[2])
      [] x[1] = "boolean" -> IF x[2] THEN <<"true">> ELSE <<"false">>
      [] x[1] = "null" -> <<"null">>
      [] x[1] = "undefined" -> <<"undefined">>
      [] OTHER -> <<"[object Object]">>

\* options.extractContent, when given, is r => String(r.v): reading a property
\* of null throws a TypeError, a value without v reads as undefined.
ExtractThrows(parsed) == parsed = Null
extractContent(parsed) ==
    IF parsed[1] = "object" THEN Str(StringOf(parsed[2]))
    ELSE Str(StringOf(Undefined))

-----------------------------------------------------------------------------
(* stream(): the body of the read loop *)

\* A caller's callback is absent, returns, or throws.
CallbackNames == {"onStart", "onMessage", "onComplete", "onError"}
AllReturn == [cb \in CallbackNames |-> "returns"]

Err(name, message) == [name |-> name, message |-> message]
ThrownBy(cb) == Err("Error", <<"thrown by ", cb>>)

\* cb?.(...): the invocation is recorded when the callback is present.
Invoke(cbs, evs, event) ==
    IF cbs[event[1]] = "absent" THEN evs ELSE Append(evs, event)

Throws(cbs, cb) == cbs[cb] = "throws"

\* The loop's progress: status is "next" (go on with the next line), "return"
\* (the function returned at [DONE]) or "throw" (err left the loop).
Progress(text, evs, status, err) ==
    [fullText |-> text, events |-> evs, status |-> status, err |-> err]

NoErr == Err("", <<>>)

\* Message putting the text in front of fullText.
Message_prepend(st, content, text, cbs) ==
    LET full == text \o st.fullText
    IN  Progress(full,
                 Invoke(cbs, st.events, <<"onMessage", content, full>>),
                 IF Throws(cbs, "onMessage") THEN "throw" ELSE "next",
                 IF Throws(cbs, "onMessage") THEN ThrownBy("onMessage") ELSE NoErr)

\* fullText += text; onMessage?.(content, fullText)
Message(st, content, text, cbs) ==
    LET full == st.fullText \o text
    IN  Progress(full,
                 Invoke(cbs, st.events, <<"onMessage", content, full>>),
                 IF Throws(cbs, "onMessage") THEN "throw" ELSE "next",
                 IF Throws(cbs, "onMessage") THEN ThrownBy("onMessage") ELSE NoErr)

\* Complete without the call of onComplete.
Complete_silent(st, cbs) == Progress(st.fullText, st.events, "return", NoErr)

\* onComplete?.(fullText); return { fullText, abort }
Complete(st, cbs) ==
    Progress(st.fullText,
             Invoke(cbs, st.events, <<"onComplete", st.fullText>>),
             IF Throws(cbs, "onComplete") THEN "throw" ELSE "return",
             IF Throws(cbs, "onComplete") THEN ThrownBy("onComplete") ELSE NoErr)

\* const content = extractContent?.(parsed) || parsed
ContentOf(extract, parsed) ==
    IF extract = "absent" THEN parsed
    ELSE IF Truthy(extractContent(parsed)) THEN extractContent(parsed)
    ELSE parsed

\* The catch of the inner try: the raw data is text.
InnerCatch(st, data, cbs) == Message(st, Str(data), data, cbs)

\* The inner try: whatever throws inside it (JSON.parse, extractContent,
\* onMessage) is caught, with fullText as it is by then.
DataLine(st, data, extract, cbs) ==
    LET parsed == JSONParse(data)
    IN  IF ~parsed.ok THEN InnerCatch(st, data, cbs)
        ELSE IF extract # "absent" /\ ExtractThrows(parsed.value)
        THEN InnerCatch(st, data, cbs)
        ELSE LET content == ContentOf(extract, parsed.value)
             IN  IF Truthy(content)
                 THEN LET m == Message(st, content, StringOf(content), cbs)
                      IN  IF m.status = "throw"
                          THEN InnerCatch([m EXCEPT !.status = "next", !.err = NoErr],
                                          data, cbs)
                          ELSE m
                 ELSE st

\* One turn of `for (const line of lines)`.
ProcessLine(st, line, extract, cbs) ==
    IF Trim(line) = <<>> THEN st
    ELSE IF StartsWithData(line)
    THEN IF IsDone(DataOf(line))
         THEN Complete(st, cbs)
         ELSE DataLine(st, DataOf(line), extract, cbs)
    ELSE Message(st, Str(line), line, cbs)

\* for (const line of lines) { ... }: left at the first return or throw.
RECURSIVE ProcessLines(_, _, _, _)
ProcessLines(st, lines, extract, cbs) ==
    IF lines = <<>> \/ st.status # "next" THEN st
    ELSE ProcessLines(ProcessLine(st, Head(lines), extract, cbs),
                      Tail(lines), extract, cbs)

\* CatchEvents without the call of onError.
CatchEvents_silent(cbs, evs, err) == evs

\* The outer catch: onError?.(err); throw err.
CatchEvents(cbs, evs, err) == Invoke(cbs, evs, <<"onError", err>>)
CatchThrows(cbs, err) == IF Throws(cbs, "onError") THEN ThrownBy("onError") ELSE err

-----------------------------------------------------------------------------
(* Request pipeline: inputs *)

Urls == {Str(<<"/a">>)}
SuccessCodes == {Undefined, Num(200)}
BodyCodes == {Num(200), Num(DefaultSuccessCode), Num(40001)}
BodyMessages == {Null, Str(<<>>), Str(<<"boom">>)}
Statuses == {401, 403, 404, 500, 502}

CallConfigs ==
    {[EmptyConfig EXCEPT !["url"] = u, !["showGlobalMessage"] = g,
                         !["successCode"] = s, !["enableCodeCheck"] = e] :
        u \in Urls, g \in {Undefined, Bool(TRUE), Bool(FALSE)},
        s \in SuccessCodes, e \in {Undefined, Bool(FALSE)}}

AxiosConfigs ==
    {EmptyConfig, [EmptyConfig EXCEPT !["successCode"] = Num(200)]}

HandlerSets ==
    [handleRequestHeader : BOOLEAN, handleGlobalMessage : BOOLEAN,
     handleBackendError : BOOLEAN]

InterceptorSets == SUBSET Hooks

Envelopes ==
    {[code |-> c, message |-> m, data |-> Str(<<"payload">>)] :
        c \in BodyCodes, m \in BodyMessages}

\* An error as responseOnRejected may receive it.  AxiosError.config is optional
\* (a cancellation through a CancelToken and an error thrown before the request
\* was built carry none); an AxiosResponse always carries its config.
Errors(c) ==
    {[isCancel |-> k, response |-> r, request |-> q, config |-> g,
      message |-> Str(<<"original">>)] :
        k \in BOOLEAN,
        r \in {Undefined} \cup {Some([status |-> s, config |-> c]) : s \in Statuses},
        q \in BOOLEAN,
        g \in {Undefined, Some(c)}}

NoResponse == [config |-> EmptyConfig, data |-> Undefined]
Pending == <<"pending">>
NoError == [isCancel |-> FALSE, response |-> Undefined, request |-> FALSE,
            config |-> Undefined, message |-> Undefined]

-----------------------------------------------------------------------------
(* Request pipeline: the state machine *)

\* The stream() calls that run at the same time on one client, and the locals
\* of a call that has not started.
CallIds == {"a", "b"}

IdleCall ==
    [pc |-> "idle", body |-> <<>>, offset |-> 0, cuts |-> <<>>, fullText |-> <<>>,
     events |-> <<>>, aborted |-> FALSE, result |-> Pending]

\* No stream() call has been made.
StreamIdle ==
    /\ options = [signal |-> FALSE, extractContent |-> "absent"]
    /\ callbacks = [cb \in CallbackNames |-> "absent"]
    /\ sPc = "idle"
    /\ body = <<>>
    /\ offset = 0
    /\ held = <<>>
    /\ chunk = <<>>
    /\ fullText = <<>>
    /\ events = <<>>
    /\ result = Pending
    /\ caught = NoErr
    /\ reads = 0
    /\ signalAborted = FALSE
    /\ controllerAborted = FALSE
    /\ streams = [i \in CallIds |-> IdleCall]

\* constructor + setupInterceptors
Init ==
    /\ variant \in {"src", "utils"}
    /\ handlers \in HandlerSets
    /\ customInterceptors \in InterceptorSets
    /\ axiosConfig \in AxiosConfigs
    /\ pc = "idle"
    /\ config = EmptyConfig
    /\ response = NoResponse
    /\ error = NoError
    /\ calls = <<>>
    /\ settled = Pending
    /\ StreamIdle

\* Default with the caller's hooks ignored.
Default_always(hook) == TRUE

\* interceptors?.hook || this.hook.bind(this)
Default(hook) == hook \notin customInterceptors

\* request(config): axios merges the instance defaults with the call's config.
request ==
    /\ pc = "idle"
    /\ \E c \in CallConfigs : config' = Spread(axiosConfig, c)
    /\ pc' = "requestInterceptor"
    /\ calls' = <<>>
    /\ settled' = Pending
    /\ response' = NoResponse
    /\ error' = NoError
    /\ UNCHANGED <<variant, handlers, customInterceptors, axiosConfig>>
    /\ UNCHANGED <<streamVars, streams>>

\* The request interceptor: the default one, or the caller's (which returns the
\* config it was given, as in the usage example).
requestOnFulfilled ==
    /\ pc = "requestInterceptor"
    /\ IF Default("requestOnFulfilled")
       THEN /\ config' = requestOnFulfilledConfig(variant, handlers, config)
            /\ calls' = IF handlers.handleRequestHeader
                        THEN Append(calls, <<"handleRequestHeader">>)
                        ELSE calls
       ELSE UNCHANGED <<config, calls>>
    /\ pc' = "dispatchRequest"
    /\ UNCHANGED <<variant, handlers, customInterceptors, axiosConfig,
                   response, error, settled>>
    /\ UNCHANGED <<streamVars, streams>>

\* The adapter answers with a 2xx response ...
dispatchResponse ==
    /\ pc = "dispatchRequest"
    /\ \E b \in Envelopes : response' = [config |-> config, data |-> b]
    /\ pc' = "responseFulfilled"
    /\ UNCHANGED <<variant, handlers, customInterceptors, axiosConfig, config,
                   error, calls, settled>>
    /\ UNCHANGED <<streamVars, streams>>

\* ... or fails.
dispatchError ==
    /\ pc = "dispatchRequest"
    /\ error' \in Errors(config)
    /\ pc' = "responseRejected"
    /\ UNCHANGED <<variant, handlers, customInterceptors, axiosConfig, config,
                   response, calls, settled>>
    /\ UNCHANGED <<streamVars, streams>>

\* The response interceptor: the default one, or the caller's (which returns the
\* response it was given, as in the usage example).
responseOnFulfilled ==
    /\ pc = "responseFulfilled"
    /\ IF Default("responseOnFulfilled")
       THEN LET c == response.config
                res == response.data
            IN  IF ~isSuccess(variant, c, res)
                THEN /\ calls' = calls \o businessFailureCalls(handlers, c, res)
                     /\ settled' = <<"rejected", <<"envelope", res>> >>
                ELSE /\ calls' = calls
                     /\ settled' = <<"resolved", successValue(variant, res)>>
       ELSE /\ calls' = calls
            /\ settled' = <<"resolved", <<"response", response>> >>
    /\ pc' = "settled"
    /\ UNCHANGED <<variant, handlers, customInterceptors, axiosConfig, config,
                   response, error>>
    /\ UNCHANGED <<streamVars, streams>>

\* The response-rejected interceptor: the default one, or the caller's (which
\* rejects with the error it was given).
responseOnRejected ==
    /\ pc = "responseRejected"
    /\ IF Default("responseOnRejected")
       THEN /\ calls' = calls \o rejectedCalls(handlers, error)
            /\ settled' = <<"rejected", <<"error", augmented(error)>> >>
       ELSE /\ calls' = calls
            /\ settled' = <<"rejected", <<"thrown", error>> >>
    /\ pc' = "settled"
    /\ UNCHANGED <<variant, handlers, customInterceptors, axiosConfig, config,
                   response, error>>
    /\ UNCHANGED <<streamVars, streams>>

\* The caller has the result; the client takes the next request.
nextRequest ==
    /\ pc = "settled"
    /\ pc' = "idle"
    /\ UNCHANGED <<variant, handlers, customInterceptors, axiosConfig, config,
                   response, error, calls, settled>>
    /\ UNCHANGED <<streamVars, streams>>

Next ==
    \/ request
    \/ requestOnFulfilled
    \/ dispatchResponse
    \/ dispatchError
    \/ responseOnFulfilled
    \/ responseOnRejected
    \/ nextRequest

Spec == Init /\ [][Next]_vars

-----------------------------------------------------------------------------
(* stream(): inputs *)

\* The lines a body is made of, each followed by a line feed.
DoneLine == DataPrefix \o DoneMark
JsonLine == DataPrefix \o ObjectOpen \o <<"1", "}">>
BareLine == <<"y">>
EmptyJsonLine == DataPrefix \o ObjectOpen \o <<"\"", "\"", "}">>
NullLine == DataPrefix \o <<"n", "u", "l", "l">>
ZeroLine == DataPrefix \o <<"0">>
TextLine == DataPrefix \o <<"x">>
EmptyDataLine == DataPrefix
BlankLine == <<" ">>
TwoByteLine == <<LeadByte, ContinuationByte>>

\* The lines that bodies of several lines are made of, and the lines that make
\* a body of one line.
Lines == {DoneLine, JsonLine, BareLine}
SingleLines == {EmptyJsonLine, NullLine, ZeroLine, TextLine, EmptyDataLine,
                BlankLine, TwoByteLine}

\* The most lines of a body, and the most reads that deliver its bytes.
MaxLines == 2
MaxReads == 2

RECURSIVE Join(_)
Join(ls) == IF ls = <<>> THEN <<>> ELSE Head(ls) \o <<LF>> \o Join(Tail(ls))

StreamBodies ==
    {Join(ls) : ls \in UNION {[1..n -> Lines] : n \in 0..MaxLines}}
    \cup {Join(<<l>>) : l \in SingleLines}

OptionSets == [signal : BOOLEAN, extractContent : {"absent", "given"}]

\* All callbacks return, or one of them throws, or none is given.
CallbackSets ==
    {[cb \in CallbackNames |-> "returns"], [cb \in CallbackNames |-> "absent"]}
    \cup {[cb \in CallbackNames |-> IF cb = t THEN "throws" ELSE "returns"] :
            t \in CallbackNames}

NotOkStatuses == {404, 500}

-----------------------------------------------------------------------------
(* stream(): the state machine *)

InitStream ==
    /\ variant = "utils"
    /\ handlers = [handleRequestHeader |-> FALSE, handleGlobalMessage |-> FALSE,
                   handleBackendError |-> FALSE]
    /\ customInterceptors = {}
    /\ axiosConfig = EmptyConfig
    /\ pc = "idle"
    /\ config = EmptyConfig
    /\ response = NoResponse
    /\ error = NoError
    /\ calls = <<>>
    /\ settled = Pending
    /\ StreamIdle

\* RequestSignalAborted with the request tied to the call's own controller only.
RequestSignalAborted_own == controllerAborted

\* const requestSignal = signal || controller.signal
RequestSignalAborted ==
    IF options.signal THEN signalAborted ELSE controllerAborted

\* catch (error) { onError?.(err); throw err }
Catch(cbs, evs, err) ==
    /\ caught' = err
    /\ events' = CatchEvents(cbs, evs, err)
    /\ result' = <<"rejected", CatchThrows(cbs, err)>>
    /\ sPc' = "rejected"

\* return { fullText, abort }
Return(evs, text) ==
    /\ events' = evs
    /\ result' = <<"resolved", text>>
    /\ sPc' = "resolved"
    /\ UNCHANGED caught

\* stream(options, callbacks) up to the await of fetch: onStart?.(), fetch(...)
stream ==
    /\ sPc = "idle"
    /\ options' \in OptionSets
    /\ callbacks' \in CallbackSets
    /\ LET evs == Invoke(callbacks', <<>>, <<"onStart">>)
       IN  IF Throws(callbacks', "onStart")
           THEN Catch(callbacks', evs, ThrownBy("onStart"))
           ELSE /\ events' = evs
                /\ sPc' = "fetching"
                /\ result' = Pending
                /\ UNCHANGED caught
    /\ UNCHANGED <<body, offset, held, chunk, fullText, reads, signalAborted,
                   controllerAborted>>
    /\ UNCHANGED <<requestVars, streams>>

\* fetch rejects: the network failed.
fetchFails ==
    /\ sPc = "fetching" /\ ~RequestSignalAborted
    /\ Catch(callbacks, events, Err("TypeError", <<"Failed to fetch">>))
    /\ UNCHANGED <<options, callbacks, body, offset, held, chunk, fullText, reads,
                   signalAborted, controllerAborted>>
    /\ UNCHANGED <<requestVars, streams>>

\* fetch rejects: the request's signal is aborted.
fetchAborted ==
    /\ sPc = "fetching" /\ RequestSignalAborted
    /\ Catch(callbacks, events, Err("AbortError", <<"The operation was aborted">>))
    /\ UNCHANGED <<options, callbacks, body, offset, held, chunk, fullText, reads,
                   signalAborted, controllerAborted>>
    /\ UNCHANGED <<requestVars, streams>>

\* if (!response.ok) throw new Error(`HTTP error! status: ${response.status}`)
fetchNotOk ==
    /\ sPc = "fetching" /\ ~RequestSignalAborted
    /\ \E status \in NotOkStatuses :
          Catch(callbacks, events, Err("Error", <<"HTTP error! status: ">> \o NatToString(status)))
    /\ UNCHANGED <<options, callbacks, body, offset, held, chunk, fullText, reads,
                   signalAborted, controllerAborted>>
    /\ UNCHANGED <<requestVars, streams>>

\* if (!reader) throw new Error('Response body is not readable')
fetchNoBody ==
    /\ sPc = "fetching" /\ ~RequestSignalAborted
    /\ Catch(callbacks, events, Err("Error", <<"Response body is not readable">>))
    /\ UNCHANGED <<options, callbacks, body, offset, held, chunk, fullText, reads,
                   signalAborted, controllerAborted>>
    /\ UNCHANGED <<requestVars, streams>>

\* The response is ok and has a body: the read loop starts.
fetchOk ==
    /\ sPc = "fetching" /\ ~RequestSignalAborted
    /\ body' \in StreamBodies
    /\ sPc' = "reading"
    /\ UNCHANGED <<options, callbacks, offset, held, chunk, fullText, events,
                   result, caught, reads, signalAborted, controllerAborted>>
    /\ UNCHANGED <<requestVars, streams>>

\* reader.read() delivers the next k bytes; the chunk is decoded, split and its
\* lines are processed.  The last of MaxReads reads delivers all that is left.
read ==
    /\ sPc = "reading" /\ ~RequestSignalAborted
    /\ offset < Len(body)
    /\ \E k \in 1..(Len(body) - offset) :
          /\ reads + 1 = MaxReads => k = Len(body) - offset
          /\ LET bytes == held \o SubSeq(body, offset + 1, offset + k)
                 text == DecodeText(bytes)
                 st == ProcessLines(Progress(fullText, events, "next", NoErr),
                                    Split(text), options.extractContent, callbacks)
             IN  /\ offset' = offset + k
                 /\ held' = DecodeHeld(bytes)
                 /\ chunk' = text
                 /\ fullText' = st.fullText
                 /\ CASE st.status = "next" ->
                            /\ events' = st.events
                            /\ UNCHANGED <<sPc, result, caught>>
                      [] st.status = "return" -> Return(st.events, st.fullText)
                      [] st.status = "throw" -> Catch(callbacks, st.events, st.err)
    /\ reads' = reads + 1
    /\ UNCHANGED <<options, callbacks, body, signalAborted, controllerAborted>>
    /\ UNCHANGED <<requestVars, streams>>

\* reader.read() answers done: break; onComplete?.(fullText); return
readDone ==
    /\ sPc = "reading" /\ ~RequestSignalAborted
    /\ offset = Len(body)
    /\ LET st == Complete(Progress(fullText, events, "next", NoErr), callbacks)
       IN  IF st.status = "throw"
           THEN Catch(callbacks, st.events, st.err)
           ELSE Return(st.events, st.fullText)
    /\ UNCHANGED <<options, callbacks, body, offset, held, chunk, fullText, reads,
                   signalAborted, controllerAborted>>
    /\ UNCHANGED <<requestVars, streams>>

\* reader.read() rejects: the connection broke.
readFails ==
    /\ sPc = "reading" /\ ~RequestSignalAborted
    /\ Catch(callbacks, events, Err("TypeError", <<"network error">>))
    /\ UNCHANGED <<options, callbacks, body, offset, held, chunk, fullText, reads,
                   signalAborted, controllerAborted>>
    /\ UNCHANGED <<requestVars, streams>>

\* reader.read() rejects: the request's signal is aborted.
readAborted ==
    /\ sPc = "reading" /\ RequestSignalAborted
    /\ Catch(callbacks, events, Err("AbortError", <<"The operation was aborted">>))
    /\ UNCHANGED <<options, callbacks, body, offset, held, chunk, fullText, reads,
                   signalAborted, controllerAborted>>
    /\ UNCHANGED <<requestVars, streams>>

\* The caller aborts the signal it passed in options.signal.
abortSignal ==
    /\ sPc \in {"fetching", "reading"}
    /\ options.signal /\ ~signalAborted
    /\ signalAborted' = TRUE
    /\ UNCHANGED <<options, callbacks, sPc, body, offset, held, chunk, fullText, events,
                   result, caught, reads, controllerAborted>>
    /\ UNCHANGED <<requestVars, streams>>

\* The caller calls the abort of the object stream() resolved with:
\* () => controller.abort()
abort ==
    /\ sPc = "resolved"
    /\ ~controllerAborted
    /\ controllerAborted' = TRUE
    /\ UNCHANGED <<options, callbacks, sPc, body, offset, held, chunk, fullText, events,
                   result, caught, reads, signalAborted>>
    /\ UNCHANGED <<requestVars, streams>>

NextStream ==
    \/ stream
    \/ fetchFails
    \/ fetchAborted
    \/ fetchNotOk
    \/ fetchNoBody
    \/ fetchOk
    \/ read
    \/ readDone
    \/ readFails
    \/ readAborted
    \/ abortSignal
    \/ abort

SpecStream == InitStream /\ [][NextStream]_vars

-----------------------------------------------------------------------------
(* Concurrent stream() calls on one client *)

\* The bodies of the concurrent calls: two lines of plain text, and a `data: `
\* line.  Each call is made with a signal of its own, without extractContent,
\* and with callbacks that return.
ConcurrentBodies == {Join(<<BareLine, BareLine>>), Join(<<TextLine>>)}

\* OwnerOf with one accumulator for all the calls of the client.
OwnerOf_shared(i) == "a"

\* let fullText = '': the accumulator a call appends to is a local of the call.
OwnerOf(i) == i

\* stream(options, callbacks) of call i up to the await of fetch.
startCall(i) ==
    /\ streams[i].pc = "idle"
    /\ streams' = [streams EXCEPT ![OwnerOf(i)].fullText = <<>>,
                                  ![i].events = <<<<"onStart">>>>,
                                  ![i].pc = "fetching"]
    /\ UNCHANGED <<requestVars, streamVars>>

\* The response of call i arrives, ok and with a body.
respondCall(i) ==
    /\ streams[i].pc = "fetching" /\ ~streams[i].aborted
    /\ \E b \in ConcurrentBodies :
          streams' = [streams EXCEPT ![i].body = b, ![i].pc = "reading"]
    /\ UNCHANGED <<requestVars, streamVars>>

\* reader.read() of call i delivers the next k bytes.
readCall(i) ==
    /\ streams[i].pc = "reading" /\ ~streams[i].aborted
    /\ streams[i].offset < Len(streams[i].body)
    /\ \E k \in 1..(Len(streams[i].body) - streams[i].offset) :
          /\ Len(streams[i].cuts) + 1 = MaxReads =>
                k = Len(streams[i].body) - streams[i].offset
          /\ LET c == streams[i]
                 text == DecodeText(SubSeq(c.body, c.offset + 1, c.offset + k))
                 st == ProcessLines(
                          Progress(streams[OwnerOf(i)].fullText, c.events, "next", NoErr),
                          Split(text), "absent", AllReturn)
             IN  streams' =
                    [streams EXCEPT
                        ![OwnerOf(i)].fullText = st.fullText,
                        ![i].offset = c.offset + k,
                        ![i].cuts = Append(c.cuts, c.offset + k),
                        ![i].events = st.events,
                        ![i].pc = IF st.status = "return" THEN "resolved" ELSE @,
                        ![i].result = IF st.status = "return"
                                      THEN <<"resolved", st.fullText>> ELSE @]
    /\ UNCHANGED <<requestVars, streamVars>>

\* reader.read() of call i answers done.
doneCall(i) ==
    /\ streams[i].pc = "reading" /\ ~streams[i].aborted
    /\ streams[i].offset = Len(streams[i].body)
    /\ LET st == Complete(Progress(streams[OwnerOf(i)].fullText, streams[i].events,
                                   "next", NoErr), AllReturn)
       IN  streams' = [streams EXCEPT ![i].events = st.events,
                                      ![i].pc = "resolved",
                                      ![i].result = <<"resolved", st.fullText>>]
    /\ UNCHANGED <<requestVars, streamVars>>

\* The catch block of call i.
CatchCall(i, err) ==
    streams' = [streams EXCEPT
                   ![i].events = CatchEvents(AllReturn, @, err),
                   ![i].pc = "rejected",
                   ![i].result = <<"rejected", CatchThrows(AllReturn, err)>>]

\* fetch or reader.read() of call i rejects: the connection broke.
failCall(i) ==
    /\ streams[i].pc \in {"fetching", "reading"} /\ ~streams[i].aborted
    /\ CatchCall(i, Err("TypeError", <<"network error">>))
    /\ UNCHANGED <<requestVars, streamVars>>

\* The caller aborts the signal it gave to call i.
abortCall(i) ==
    /\ streams[i].pc \in {"fetching", "reading"} /\ ~streams[i].aborted
    /\ streams' = [streams EXCEPT ![i].aborted = TRUE]
    /\ UNCHANGED <<requestVars, streamVars>>

\* fetch or reader.read() of call i rejects: its signal is aborted.
abortedCall(i) ==
    /\ streams[i].pc \in {"fetching", "reading"} /\ streams[i].aborted
    /\ CatchCall(i, Err("AbortError", <<"The operation was aborted">>))
    /\ UNCHANGED <<requestVars, streamVars>>

NextConcurrent ==
    \/ \E i \in CallIds : startCall(i)
    \/ \E i \in CallIds : respondCall(i)
    \/ \E i \in CallIds : readCall(i)
    \/ \E i \in CallIds : doneCall(i)
    \/ \E i \in CallIds : failCall(i)
    \/ \E i \in CallIds : abortCall(i)
    \/ \E i \in CallIds : abortedCall(i)

SpecConcurrent == InitStream /\ [][NextConcurrent]_vars

-----------------------------------------------------------------------------
(* Request pipeline: what the claims speak about *)

Count(name) == Cardinality({i \in DOMAIN calls : calls[i][1] = name})

\* The invocations of handleBackendError and handleGlobalMessage, in order.
NotHeaderCall(c) == c[1] # "handleRequestHeader"
HandlerCalls == SelectSeq(calls, NotHeaderCall)

\* The default response interceptor has handled a 2xx response.
FulfilledDone ==
    pc = "settled" /\ response # NoResponse /\ Default("responseOnFulfilled")

\* The default response-rejected interceptor has handled an error.
RejectedDone ==
    pc = "settled" /\ error # NoError /\ Default("responseOnRejected")

\* The code check is on: always in src, by enableCodeCheck in utils.
CodeCheckEnabled ==
    variant = "src" \/ Truthy(response.config["enableCodeCheck"])

BodyCodeDiffers == response.data.code # response.config["successCode"]

BusinessFailure == FulfilledDone /\ CodeCheckEnabled /\ BodyCodeDiffers

\* The table of section 6 of the specification, by class.
ErrorClass(e) ==
    IF e.isCancel THEN "cancelled"
    ELSE IF e.response # Undefined
         THEN IF The(e.response).status \in {401, 403, 404, 500}
              THEN "status"
              ELSE "other status"
    ELSE IF e.request THEN "no response"
    ELSE "unknown"

ClassMessage(e) ==
    LET class == ErrorClass(e)
        status == The(e.response).status
    IN  CASE class = "cancelled" -> MsgCancelled
          [] class = "status" /\ status = 401 -> MsgUnauthorized
          [] class = "status" /\ status = 403 -> MsgForbidden
          [] class = "status" /\ status = 404 -> MsgNotFound \o config["url"][2]
          [] class = "status" /\ status = 500 -> MsgServer
          [] class = "other status" -> MsgHttp \o NatToString(status)
          [] class = "no response" -> MsgNetwork
          [] class = "unknown" -> MsgUnknown

\* The error's own properties with the message of its class.
WithClassMessage(e) ==
    [response |-> e.response, request |-> e.request, config |-> e.config,
     message |-> Str(ClassMessage(e))]

-----------------------------------------------------------------------------
(* C1 *)

\* C1 as stated: on a business failure (2xx, code check on, body code differs
\* from successCode) request() rejects and exactly one of handleBackendError and
\* handleGlobalMessage is invoked, whichever handlers are registered.
C1_ExactlyOneHandler ==
    BusinessFailure =>
        /\ settled[1] = "rejected"
        /\ Count("handleBackendError") + Count("handleGlobalMessage") = 1

\* C1 amended: on a business failure request() rejects and never both handlers
\* are invoked: handleBackendError exactly once when it is registered; otherwise
\* handleGlobalMessage exactly once when showGlobalMessage is truthy and
\* handleGlobalMessage is registered; otherwise neither of them.
C1_AtMostOneHandler ==
    BusinessFailure =>
        /\ settled[1] = "rejected"
        /\ Count("handleBackendError") =
              (IF handlers.handleBackendError THEN 1 ELSE 0)
        /\ Count("handleGlobalMessage") =
              (IF /\ ~handlers.handleBackendError
                  /\ handlers.handleGlobalMessage
                  /\ Truthy(response.config["showGlobalMessage"])
               THEN 1 ELSE 0)
        /\ Count("handleBackendError") + Count("handleGlobalMessage") <= 1

C1_Witness ==
    /\ BusinessFailure
    /\ handlers.handleBackendError /\ handlers.handleGlobalMessage
    /\ Truthy(response.config["showGlobalMessage"])
    /\ Count("handleBackendError") = 1

-----------------------------------------------------------------------------
(* C2 *)

\* C2: with the code check on, a response whose body code equals successCode
\* resolves, and neither handleBackendError nor handleGlobalMessage is invoked.
C2_SuccessResolvesQuietly ==
    (FulfilledDone /\ CodeCheckEnabled /\ ~BodyCodeDiffers) =>
        /\ settled[1] = "resolved"
        /\ Count("handleBackendError") = 0
        /\ Count("handleGlobalMessage") = 0

C2_Witness ==
    /\ FulfilledDone /\ CodeCheckEnabled /\ ~BodyCodeDiffers
    /\ handlers.handleBackendError /\ handlers.handleGlobalMessage
    /\ Truthy(response.config["showGlobalMessage"])
    /\ settled[1] = "resolved"

-----------------------------------------------------------------------------
(* C7 *)

\* C7: on a business failure with handleBackendError registered, the handler is
\* invoked exactly once with (body.code, body.message), handleGlobalMessage is
\* not invoked whatever showGlobalMessage is, and the promise is rejected with
\* the response body.
C7_BackendErrorOnly ==
    (BusinessFailure /\ handlers.handleBackendError) =>
        /\ HandlerCalls =
              << <<"handleBackendError", response.data.code,
                   response.data.message>> >>
        /\ settled = <<"rejected", <<"envelope", response.data>> >>

C7_Witness ==
    /\ BusinessFailure /\ handlers.handleBackendError
    /\ handlers.handleGlobalMessage
    /\ Truthy(response.config["showGlobalMessage"])
    /\ response.data.message = Null
    /\ Count("handleBackendError") = 1

-----------------------------------------------------------------------------
(* C8 *)

\* C8 as stated: on a transport failure, if the request's showGlobalMessage is
\* true the (registered) handleGlobalMessage is invoked exactly once with the
\* message of the class, handleBackendError is never invoked, and the promise is
\* rejected with the error augmented with that message.
C8_GlobalMessageWhenShown ==
    RejectedDone =>
        /\ (Truthy(config["showGlobalMessage"]) /\ handlers.handleGlobalMessage)
              => HandlerCalls =
                    << <<"handleGlobalMessage", Str(ClassMessage(error))>> >>
        /\ Count("handleBackendError") = 0
        /\ settled = <<"rejected", <<"error", WithClassMessage(error)>> >>

\* C8 amended: on a transport failure handleGlobalMessage is invoked exactly
\* once, with the message of the class, when the error carries the request's
\* config (error.config), its showGlobalMessage is truthy and the handler is
\* registered, and is not invoked otherwise; handleBackendError is never
\* invoked; the promise is always rejected with the error's properties and the
\* message of the class.
C8_GlobalMessageWhenConfigShown ==
    RejectedDone =>
        /\ HandlerCalls =
              (IF /\ error.config # Undefined
                  /\ Truthy(The(error.config)["showGlobalMessage"])
                  /\ handlers.handleGlobalMessage
               THEN << <<"handleGlobalMessage", Str(ClassMessage(error))>> >>
               ELSE <<>>)
        /\ Count("handleBackendError") = 0
        /\ settled = <<"rejected", <<"error", WithClassMessage(error)>> >>

C8_Witness ==
    /\ RejectedDone
    /\ error.config # Undefined
    /\ Truthy(The(error.config)["showGlobalMessage"])
    /\ handlers.handleGlobalMessage /\ handlers.handleBackendError
    /\ Count("handleGlobalMessage") = 1

-----------------------------------------------------------------------------
(* C9 *)

\* C9: the default response-rejected interceptor gives every error the message
\* of exactly one class, with the precedence cancelled > response (by status)
\* > request without response > unknown; the 404 message carries the url, the
\* other-status message the status, and the constant messages differ.
C9_ClassMessage ==
    /\ RejectedDone => settled[2][2].message = Str(ClassMessage(error))
    /\ Cardinality({MsgCancelled, MsgUnauthorized, MsgForbidden, MsgServer,
                    MsgNetwork, MsgUnknown}) = 6

C9_Witness ==
    /\ RejectedDone
    /\ error.isCancel /\ error.response # Undefined /\ error.request
    /\ settled[2][2].message = Str(MsgCancelled)

-----------------------------------------------------------------------------
(* stream(): what the claims speak about *)

EventCount(name) == Cardinality({i \in DOMAIN events : events[i][1] = name})

InFlight == sPc \in {"fetching", "reading"}

AbortError == Err("AbortError", <<"The operation was aborted">>)

\* The errors that stream() does not get from a callback of the caller: fetch
\* or a read failed or was cancelled, the status is not ok, the body is missing.
EnvironmentErrors ==
    {Err("TypeError", <<"Failed to fetch">>), Err("TypeError", <<"network error">>),
     AbortError, Err("Error", <<"Response body is not readable">>)}
    \cup {Err("Error", <<"HTTP error! status: ">> \o NatToString(st)) :
            st \in NotOkStatuses}

\* The lines of a text that stand before its first `data: [DONE]` line.
IsDoneLine(line) ==
    /\ Len(line) >= Len(DataPrefix)
    /\ SubSeq(line, 1, Len(DataPrefix)) = DataPrefix
    /\ Trim(SubSeq(line, Len(DataPrefix) + 1, Len(line))) = DoneMark

HasDoneLine(text) == \E i \in DOMAIN Split(text) : IsDoneLine(Split(text)[i])

FirstDone(text) ==
    CHOOSE i \in DOMAIN Split(text) :
        IsDoneLine(Split(text)[i]) /\ \A j \in 1..(i - 1) : ~IsDoneLine(Split(text)[j])

BeforeDone(text) == SubSeq(Split(text), 1, FirstDone(text) - 1)
AfterDone(text) == SubSeq(Split(text), FirstDone(text) + 1, Len(Split(text)))

-----------------------------------------------------------------------------
(* C3 *)

\* C3: when fetch, the status check, the body check or a read throws (network
\* failure, non-OK status, unreadable body, cancellation, failure of a read),
\* onError, when given, is invoked exactly once, with that error and as the last
\* callback of the call; the promise rejects with that error (with onError's own
\* error when onError throws); onComplete is not invoked in the call; and a call
\* that resolves has not invoked onError: no error ends in a resolution.
C3_ErrorReportedOnceAndRejected ==
    /\ (sPc = "rejected" /\ caught \in EnvironmentErrors) =>
          /\ callbacks["onError"] # "absent" =>
                /\ EventCount("onError") = 1
                /\ events[Len(events)] = <<"onError", caught>>
          /\ result = <<"rejected", IF callbacks["onError"] = "throws"
                                    THEN ThrownBy("onError") ELSE caught>>
          /\ EventCount("onComplete") = 0
    /\ sPc = "resolved" => (EventCount("onError") = 0 /\ caught = NoErr)
    /\ sPc = "rejected" <=> caught # NoErr
    /\ result[1] = "resolved" <=> sPc = "resolved"
    /\ result[1] = "rejected" <=> sPc = "rejected"

C3_Witness ==
    /\ sPc = "rejected"
    /\ callbacks = AllReturn
    /\ caught = AbortError
    /\ result = <<"rejected", AbortError>>
    /\ fullText # <<>>
    /\ EventCount("onMessage") > 0
    /\ EventCount("onError") = 1

-----------------------------------------------------------------------------
(* C4 *)

\* C4 as stated: whether or not the caller gave a signal, while a stream() call
\* is in flight (fetch or a read is pending) the caller can call its abort()
\* handle, and once the handle has been called the signal the request was issued
\* with is aborted, so that the pending fetch or read rejects.
C4_AbortCancelsInFlight ==
    /\ InFlight => ENABLED abort
    /\ controllerAborted => RequestSignalAborted

-----------------------------------------------------------------------------
(* C5 *)

\* C5: when a read delivers a chunk with a `data: [DONE]` line (and the caller's
\* callbacks return), fullText is the text accumulated from the lines before
\* that line, onComplete is invoked once, last, with it, the call resolves with
\* it, and from then on nothing is read and no callback is invoked: the lines
\* after [DONE], in the chunk or in later chunks, add nothing.
C5_DoneStep ==
    (sPc = "reading" /\ sPc' # "reading" /\ reads' = reads + 1
        /\ callbacks = AllReturn /\ HasDoneLine(chunk')) =>
        LET before == ProcessLines(Progress(fullText, events, "next", NoErr),
                                   BeforeDone(chunk'), options.extractContent,
                                   callbacks)
        IN  /\ fullText' = before.fullText
            /\ events' = Append(before.events, <<"onComplete", fullText'>>)
            /\ result' = <<"resolved", fullText'>>
            /\ sPc' = "resolved"

C5_NothingAfterDone ==
    sPc = "resolved" =>
        UNCHANGED <<sPc, fullText, events, result, offset, reads, chunk>>

C5_DoneEndsTheStream ==
    /\ [][C5_DoneStep]_vars
    /\ [][C5_NothingAfterDone]_vars
    /\ [](HasDoneLine(chunk) /\ callbacks = AllReturn => sPc = "resolved")

C5_Witness ==
    /\ sPc = "resolved"
    /\ callbacks = AllReturn
    /\ HasDoneLine(chunk)
    /\ \E i \in DOMAIN AfterDone(chunk) : Trim(AfterDone(chunk)[i]) # <<>>
    /\ offset < Len(body)
    /\ events[Len(events)] = <<"onComplete", fullText>>

-----------------------------------------------------------------------------
(* C6 *)

\* The contents the calls of onMessage got, in order.
IsMessage(e) == e[1] = "onMessage"
MessageContents(evs) == [i \in DOMAIN SelectSeq(evs, IsMessage) |->
                            SelectSeq(evs, IsMessage)[i][2]]

\* The same call when one read delivers the whole body.
WholeBody ==
    ProcessLines(Progress(<<>>, Invoke(callbacks, <<>>, <<"onStart">>), "next", NoErr),
                 Split(DecodeText(body)), options.extractContent, callbacks)

\* C6 as stated: however the reads split the body, a call that resolves (with
\* callbacks that return) has the fullText, and has passed to onMessage the
\* contents, of the call in which one read delivers the whole body.
C6_SplitInvariance ==
    (sPc = "resolved" /\ callbacks = AllReturn) =>
        /\ fullText = WholeBody.fullText
        /\ MessageContents(events) = MessageContents(WholeBody.events)

-----------------------------------------------------------------------------
(* C10 *)

\* The body is one `data: ` line, not [DONE], and one read has delivered it.
OneDataLineRead ==
    /\ reads = 1 /\ offset = Len(body) /\ body # <<>>
    /\ Len(Split(chunk)) = 2 /\ Split(chunk)[2] = <<>>
    /\ StartsWithData(Split(chunk)[1])
    /\ ~IsDoneLine(Split(chunk)[1])

Payload == DataOf(Split(chunk)[1])

\* The text C10 has appended for a payload: extractContent(parsed) when
\* extractContent is given, the string form of parsed when it is not, the raw
\* payload when it is not JSON.
StatedText ==
    IF ~JSONParse(Payload).ok THEN Payload
    ELSE IF options.extractContent = "absent" THEN StringOf(JSONParse(Payload).value)
    ELSE StringOf(extractContent(JSONParse(Payload).value))

\* C10 as stated: after the read of a `data: ` line (extractContent, when given,
\* returning a string), fullText is the text that C10 states and every call of
\* onMessage got that text.
C10_AppendedText ==
    (OneDataLineRead /\ callbacks = AllReturn
        /\ ~(options.extractContent # "absent" /\ JSONParse(Payload).ok
               /\ ExtractThrows(JSONParse(Payload).value))) =>
        /\ fullText = StatedText
        /\ \A i \in DOMAIN MessageContents(events) :
              StringOf(MessageContents(events)[i]) = StatedText

-----------------------------------------------------------------------------
(* C11 *)

\* C11 as stated: onMessage is never invoked with empty content: the string form
\* of the content of every call of onMessage is not the empty string, and a call
\* of onMessage extends fullText.
C11_NoEmptyMessage ==
    /\ \A i \in DOMAIN MessageContents(events) :
          StringOf(MessageContents(events)[i]) # <<>>
    /\ \A i \in DOMAIN events :
          (IsMessage(events[i]) /\ i > 1 /\ IsMessage(events[i - 1])) =>
              events[i][3] # events[i - 1][3]

-----------------------------------------------------------------------------
(* C12 *)

\* C12: in the utils variant the default response interceptor decides success
\* by enableCodeCheck: when it is true the request resolves exactly when
\* config.successCode equals the body code; when it is false the request
\* resolves with the envelope for every body code and neither
\* handleBackendError nor handleGlobalMessage is invoked.
C12_EnableCodeCheck ==
    (FulfilledDone /\ variant = "utils") =>
        /\ response.config["enableCodeCheck"] = Bool(TRUE) =>
              (settled[1] = "resolved" <=>
                  response.config["successCode"] = response.data.code)
        /\ response.config["enableCodeCheck"] = Bool(FALSE) =>
              /\ settled = <<"resolved", <<"envelope", response.data>> >>
              /\ HandlerCalls = <<>>

C12_Witness ==
    /\ FulfilledDone /\ variant = "utils"
    /\ response.config["enableCodeCheck"] = Bool(FALSE)
    /\ response.config["successCode"] = Num(DefaultSuccessCode)
    /\ response.data.code = Num(40001)
    /\ handlers.handleBackendError /\ handlers.handleGlobalMessage
    /\ settled[1] = "resolved"

-----------------------------------------------------------------------------
(* C13 *)

\* A business failure that the global message reports.
GlobalMessageFailure ==
    /\ BusinessFailure
    /\ ~handlers.handleBackendError /\ handlers.handleGlobalMessage
    /\ response.config["showGlobalMessage"] = Bool(TRUE)

FallbackText ==
    Str(<<"request failed, business code: ">>
        \o NatToString(response.data.code[2]))

\* C13 as stated: on a business failure without handleBackendError and with
\* showGlobalMessage true, handleGlobalMessage gets the body's message whenever
\* it is not null or undefined (the empty string too), and the fallback text
\* with the business code only when it is null or undefined.
C13_MessageUnlessNullish ==
    GlobalMessageFailure =>
        HandlerCalls =
            << <<"handleGlobalMessage",
                 IF response.data.message \notin {Null, Undefined}
                 THEN response.data.message ELSE FallbackText>> >>

\* C13 amended: handleGlobalMessage gets the body's message when it is a
\* non-empty string, and the fallback text with the business code when it is
\* null, undefined or the empty string.
C13_MessageUnlessFalsy ==
    GlobalMessageFailure =>
        HandlerCalls =
            << <<"handleGlobalMessage",
                 IF response.data.message \notin {Null, Undefined, Str(<<>>)}
                 THEN response.data.message ELSE FallbackText>> >>

C13_Witness ==
    /\ GlobalMessageFailure
    /\ response.data.message = Str(<<>>)
    /\ response.data.code = Num(40001)
    /\ HandlerCalls = << <<"handleGlobalMessage", FallbackText>> >>

-----------------------------------------------------------------------------
(* C14 *)

\* A hook of the caller has handled the request, the response or the error.
RequestHookDone == pc \notin {"idle", "requestInterceptor"}
ResponseHookDone == pc = "settled" /\ response # NoResponse
RejectedHookDone == pc = "settled" /\ error # NoError

\* C14: a hook given in customInterceptors replaces the default logic of that
\* hook and of no other.  A given requestOnFulfilled: no defaults are merged and
\* handleRequestHeader is not invoked; a given responseOnFulfilled: no code
\* check and no handler, the request resolves with what the hook returns; a
\* given responseOnRejected: no handler and no resolved message, the request
\* rejects with what the hook rejects with.  A hook that is not given keeps the
\* default logic, whichever other hooks are given.
C14_RequestHook ==
    pc = "requestInterceptor" =>
        IF "requestOnFulfilled" \in customInterceptors
        THEN UNCHANGED <<config, calls>>
        ELSE /\ \A k \in {"showGlobalMessage", "successCode"} :
                   config'[k] = IF config[k] # Undefined THEN config[k]
                                ELSE defaultConfig(variant)[k]
             /\ calls' = IF handlers.handleRequestHeader
                         THEN <<<<"handleRequestHeader">>>> ELSE <<>>

C14_ResponseHooks ==
    /\ ResponseHookDone =>
          IF "responseOnFulfilled" \in customInterceptors
          THEN /\ HandlerCalls = <<>>
               /\ settled = <<"resolved", <<"response", response>> >>
          ELSE /\ settled[1] = "rejected" <=> (CodeCheckEnabled /\ BodyCodeDiffers)
               /\ handlers.handleBackendError =>
                     Count("handleBackendError") =
                        (IF settled[1] = "rejected" THEN 1 ELSE 0)
    /\ RejectedHookDone =>
          IF "responseOnRejected" \in customInterceptors
          THEN /\ HandlerCalls = <<>>
               /\ settled = <<"rejected", <<"thrown", error>> >>
          ELSE settled = <<"rejected", <<"error", WithClassMessage(error)>> >>

C14_HooksOverridable == [][C14_RequestHook]_vars /\ []C14_ResponseHooks

C14_Witness ==
    /\ ResponseHookDone
    /\ customInterceptors = {"responseOnFulfilled"}
    /\ handlers.handleBackendError /\ handlers.handleGlobalMessage
    /\ handlers.handleRequestHeader
    /\ BodyCodeDiffers
    /\ response.config["showGlobalMessage"] = Bool(TRUE)
    /\ response.config["Authorization"] # Undefined
    /\ settled = <<"resolved", <<"response", response>> >>

-----------------------------------------------------------------------------
(* C18 *)

\* The keys the library gives a default to.
DefaultedKeys ==
    IF variant = "utils"
    THEN {"showGlobalMessage", "successCode", "enableCodeCheck"}
    ELSE {"showGlobalMessage", "successCode"}

\* C18 as stated: whatever hooks the construction overrides, the config that a
\* default response-side interceptor reads (response.config, error.config)
\* carries, for each key the library gives a default to, the call's value or,
\* when the call has none, the library default: the value is never missing.
C18_DefaultsReachResponseSide ==
    /\ (pc = "responseFulfilled" /\ Default("responseOnFulfilled")) =>
          \A k \in DefaultedKeys : response.config[k] # Undefined
    /\ (pc = "responseRejected" /\ Default("responseOnRejected")
          /\ error.config # Undefined) =>
          \A k \in DefaultedKeys : The(error.config)[k] # Undefined

-----------------------------------------------------------------------------
(* C16 *)

\* The call has resolved at the end of the body, not at a [DONE] line.
Exhausted == sPc = "resolved" /\ ~HasDoneLine(chunk)

\* C16: when the reader answers done and no [DONE] line was seen, onComplete
\* (when given) has been invoked exactly once, last, with the accumulated
\* fullText, and the promise is resolved with that fullText, the whole body
\* having been read.  And the call comes to that end: at the end of the body
\* the step that completes is the one the call takes; a step that keeps the
\* call reading delivers bytes of the finite body (or is the caller's abort of
\* its signal); and the call leaves the loop resolved unless an error was
\* raised.
C16_ExhaustedResolves ==
    /\ Exhausted =>
          /\ offset = Len(body)
          /\ result = <<"resolved", fullText>>
          /\ callbacks["onComplete"] # "absent" =>
                /\ EventCount("onComplete") = 1
                /\ events[Len(events)] = <<"onComplete", fullText>>
    /\ offset <= Len(body)
    /\ (sPc = "reading" /\ offset = Len(body) /\ ~RequestSignalAborted) =>
          ENABLED readDone

C16_ReadingStep ==
    /\ (sPc = "reading" /\ sPc' = "reading") =>
          \/ offset' > offset
          \/ ~signalAborted /\ signalAborted' /\ offset' = offset
    /\ (InFlight /\ ~InFlight') =>
          \/ sPc' = "resolved" /\ caught' = NoErr
          \/ sPc' = "rejected" /\ caught' # NoErr

C16_ExhaustionCompletes ==
    []C16_ExhaustedResolves /\ [][C16_ReadingStep]_vars

C16_Witness ==
    /\ Exhausted
    /\ callbacks = AllReturn
    /\ reads = 2
    /\ fullText # <<>>
    /\ events[Len(events)] = <<"onComplete", fullText>>

-----------------------------------------------------------------------------
(* C17 *)

\* The content of a line: nothing for a blank line; for a `data: ` line the
\* string form of the content when the payload is JSON (nothing when the
\* content is falsy) and the payload when it is not; the line itself otherwise.
LineText(line, extract) ==
    IF Trim(line) = <<>> THEN <<>>
    ELSE IF ~StartsWithData(line) THEN line
    ELSE IF ~JSONParse(DataOf(line)).ok THEN DataOf(line)
    ELSE IF extract # "absent" /\ ExtractThrows(JSONParse(DataOf(line)).value)
    THEN DataOf(line)
    ELSE IF Truthy(ContentOf(extract, JSONParse(DataOf(line)).value))
    THEN StringOf(ContentOf(extract, JSONParse(DataOf(line)).value))
    ELSE <<>>

RECURSIVE ConcatTexts(_, _)
ConcatTexts(lines, extract) ==
    IF lines = <<>> THEN <<>>
    ELSE LineText(Head(lines), extract) \o ConcatTexts(Tail(lines), extract)

\* The lines of a chunk that the loop processes: all, or those before [DONE].
ProcessedLines(text) == IF HasDoneLine(text) THEN BeforeDone(text) ELSE Split(text)

\* The string forms of the first n contents passed to onMessage, concatenated.
RECURSIVE ContentsUpTo(_, _)
ContentsUpTo(contents, n) ==
    IF n = 0 THEN <<>>
    ELSE ContentsUpTo(contents, n - 1) \o StringOf(contents[n])

IsPrefix(a, b) == Len(a) <= Len(b) /\ SubSeq(b, 1, Len(a)) = a

\* C17: fullText only grows by appending.  Every call onMessage(content,
\* fullText) gets the fullText of before the call followed by content, so that
\* (onMessage given) fullText is at every point the concatenation of the
\* contents passed so far, in order; and a read appends to fullText the contents
\* of the chunk's processed lines in the order of the byte stream, blank lines
\* and empty chunks adding nothing.
C17_MessagesAccumulate ==
    callbacks["onMessage"] # "absent" =>
        /\ fullText = ContentsUpTo(MessageContents(events),
                                   Len(MessageContents(events)))
        /\ \A i \in DOMAIN SelectSeq(events, IsMessage) :
              SelectSeq(events, IsMessage)[i][3] =
                  ContentsUpTo(MessageContents(events), i)

C17_ReadAppends ==
    /\ IsPrefix(fullText, fullText')
    /\ reads' = reads => fullText' = fullText
    /\ (reads' = reads + 1 /\ callbacks["onMessage"] # "throws") =>
          fullText' = fullText
                      \o ConcatTexts(ProcessedLines(chunk'), options.extractContent)

C17_AppendOnly == []C17_MessagesAccumulate /\ [][C17_ReadAppends]_vars

C17_Witness ==
    /\ callbacks = AllReturn
    /\ reads = 2
    /\ EventCount("onMessage") = 3
    /\ Len(fullText) > 2
    /\ sPc = "resolved"

-----------------------------------------------------------------------------
(* C19 *)

IsTerminal(e) == e[1] \in {"onComplete", "onError"}
AllGiven == \A cb \in CallbackNames : callbacks[cb] # "absent"

\* C19 as stated: in a call whose four callbacks are given (returning or
\* throwing), onStart is invoked exactly once and first, before fetch; then come
\* calls of onMessage only; a call that has ended has invoked exactly one
\* terminal callback, onComplete or onError and never both, as its last
\* callback; a call in flight has invoked none.
C19_CallbackProtocol ==
    (AllGiven /\ sPc # "idle") =>
        /\ events[1] = <<"onStart">>
        /\ EventCount("onStart") = 1
        /\ EventCount("onComplete") + EventCount("onError") <= 1
        /\ \A i \in 1..(Len(events) - 1) : ~IsTerminal(events[i])
        /\ InFlight => ~IsTerminal(events[Len(events)])
        /\ ~InFlight => IsTerminal(events[Len(events)])

-----------------------------------------------------------------------------
(* C20 *)

\* The caller gave a signal and has aborted it while the call is in flight.
SignalCancelled == options.signal /\ signalAborted /\ InFlight

\* C20: once the caller has aborted the signal it gave, the pending fetch or
\* read is the one that ends the call: the step the call takes is enabled and
\* rejects with the cancellation error, onError (when given) being invoked once
\* with it, and no byte is read and nothing is appended any more.  Without a
\* signal of the caller the token of the request is the call's own controller:
\* the returned abort() aborts that token and leaves the caller's signal alone.
C20_CancelStep ==
    /\ SignalCancelled =>
          /\ sPc' = "rejected" /\ caught' = AbortError
          /\ result' = <<"rejected", IF callbacks["onError"] = "throws"
                                     THEN ThrownBy("onError") ELSE AbortError>>
          /\ events' = IF callbacks["onError"] = "absent" THEN events
                       ELSE Append(events, <<"onError", AbortError>>)
          /\ UNCHANGED <<fullText, offset, reads>>
    /\ (controllerAborted' /\ ~controllerAborted) =>
          /\ signalAborted' = signalAborted
          /\ ~options.signal => RequestSignalAborted'

C20_CancelPending ==
    /\ SignalCancelled => ENABLED (fetchAborted \/ readAborted)
    /\ (options.signal /\ signalAborted /\ ~InFlight) =>
          /\ sPc = "rejected" /\ caught = AbortError
          /\ callbacks["onError"] # "absent" => EventCount("onError") = 1
    /\ ~options.signal => ~signalAborted

C20_SignalCancels == []C20_CancelPending /\ [][C20_CancelStep]_vars

C20_Witness ==
    /\ options.signal /\ signalAborted
    /\ sPc = "rejected" /\ caught = AbortError
    /\ callbacks = AllReturn
    /\ reads = 1 /\ offset < Len(body)
    /\ fullText # <<>>
    /\ events[Len(events)] = <<"onError", AbortError>>

-----------------------------------------------------------------------------
(* C15 *)

\* The call alone: its body delivered in the same chunks, nothing else running.
RECURSIVE Alone(_, _, _)
Alone(b, cuts, n) ==
    IF n = 0 THEN Progress(<<>>, <<<<"onStart">>>>, "next", NoErr)
    ELSE IF Alone(b, cuts, n - 1).status # "next" THEN Alone(b, cuts, n - 1)
    ELSE ProcessLines(Alone(b, cuts, n - 1),
                      Split(DecodeText(SubSeq(b, (IF n = 1 THEN 0 ELSE cuts[n - 1]) + 1,
                                              cuts[n]))),
                      "absent", AllReturn)

AloneNow(i) == Alone(streams[i].body, streams[i].cuts, Len(streams[i].cuts))

\* C15: under every interleaving of the steps of the concurrent calls, each call
\* has passed to onMessage the arguments, and has the fullText, that it has when
\* it runs alone on its own response; it resolves with that fullText; and a
\* step of one call (a read, a failure, an abort) changes nothing of another.
C15_EachCallAsAlone ==
    \A i \in CallIds :
        /\ streams[i].fullText = AloneNow(i).fullText
        /\ streams[i].pc # "idle" =>
              SelectSeq(streams[i].events, IsMessage)
                  = SelectSeq(AloneNow(i).events, IsMessage)
        /\ streams[i].pc = "resolved" =>
              /\ streams[i].result = <<"resolved", AloneNow(i).fullText>>
              /\ streams[i].events[Len(streams[i].events)]
                    = <<"onComplete", AloneNow(i).fullText>>
        /\ streams[i].pc = "rejected" =>
              streams[i].events[Len(streams[i].events)][1] = "onError"

C15_StepOfOneCall ==
    Cardinality({i \in CallIds : streams'[i] # streams[i]}) <= 1

C15_NoSharedState == []C15_EachCallAsAlone /\ [][C15_StepOfOneCall]_vars

C15_Witness ==
    /\ streams["a"].pc = "resolved" /\ streams["b"].pc = "rejected"
    /\ streams["b"].aborted
    /\ Len(streams["a"].cuts) = 2 /\ Len(streams["b"].cuts) = 1
    /\ streams["a"].fullText # <<>> /\ streams["b"].fullText # <<>>
    /\ streams["a"].fullText # streams["b"].fullText

-----------------------------------------------------------------------------
(* C21 *)

OtherVariant == IF variant = "src" THEN "utils" ELSE "src"

\* The config of the response with enableCodeCheck true, as the utils variant
\* of the comparison has it.
CheckedConfig == [response.config EXCEPT !["enableCodeCheck"] = Bool(TRUE)]

\* What the default response interceptor of variant v does with the response:
\* the handlers it invokes, and what request() settles with.
ResponseOutcome(v) ==
    IF isSuccess(v, CheckedConfig, response.data)
    THEN [calls |-> <<>>,
          settled |-> <<"resolved", successValue(v, response.data)>>]
    ELSE [calls |-> businessFailureCalls(handlers, CheckedConfig, response.data),
          settled |-> <<"rejected", <<"envelope", response.data>> >>]

\* The default response interceptor has handled a response under the code
\* check (in utils: enableCodeCheck is true).
CheckedDone ==
    FulfilledDone /\ (variant = "utils" => response.config["enableCodeCheck"] = Bool(TRUE))

====
